---- MODULE Spec2Model ----
(***************************************************************************)
(* Model of the paid-job state machine of src/main.py: start_job,          *)
(* handle_payment_status (the payment-completion callback) and get_status, *)
(* over the in-memory registries `jobs` and `payment_instances`.           *)
(*                                                                         *)
(* The handlers are coroutines on one event loop.  A handler runs          *)
(* atomically between two suspension points; the suspension points are the *)
(* awaited calls into the payment service (create_payment_request,         *)
(* start_status_monitoring, complete_payment, check_payment_status).       *)
(* execute_crew_task is a coroutine without an inner await (crew.kickoff   *)
(* is a blocking call), so `await execute_crew_task(..)` does not yield.   *)
(*                                                                         *)
(* The payment service and the task executor are external: an awaited call *)
(* returns normally or raises.  A payment monitor delivers its completion  *)
(* callback while it is monitoring (started and not yet stopped), possibly *)
(* more than once and while an earlier handler is suspended;               *)
(* stop_status_monitoring is a synchronous cancel that does not raise and  *)
(* ends the deliveries.                                                    *)
(*                                                                         *)
(* The counters and `hist` record the calls made and the statuses assigned;*)
(* `response` is the HTTP response of the step just taken.                 *)
(*                                                                         *)
(* The webhook endpoint (handle_webhook, process_waha_message) is modelled *)
(* over the dedup registry `processed_message_ids`.  A request suspends at *)
(* asyncio.sleep, at the reply send and at the apology send; the executor  *)
(* and the sends return or raise.  Message texts are sequences of          *)
(* characters and chat ids sequences of tokens, so that the string tests   *)
(* of the code are computed.  Spec covers the paid-job endpoints,          *)
(* SpecWebhook the webhook endpoint handling one request at a time over a  *)
(* wide set of bodies and executor outputs, SpecDedup the webhook endpoint *)
(* fed with consecutively numbered messages up to and beyond the           *)
(* registry's cap, SpecRace the webhook endpoint handling several requests *)
(* concurrently, SpecFrame the webhook endpoint next to /start_job,        *)
(* SpecLive the life of the paid jobs under the assumption that an awaited *)
(* complete_payment returns or raises.                                     *)
(***************************************************************************)
EXTENDS Integers, Sequences, FiniteSets, TLC

\* ---------------------------------------------------------------- bounds
MaxJobs == 2
MaxCallbacks == 2
MaxQueries == 1

JobIds == 1..MaxJobs

\* ------------------------------------------------------- value domains
None == "None"
Absent == "Absent"

\* request bodies of /start_job: input_data with or without the "text" key
InputDatas == {("text" :> "hello"), <<>>}
Purchasers == {"p1"}

\* the task executor's output object, and its raw-text view result.raw
CrewOutput == "CrewOutput"
RawText == "out"

\* data.status values a payment status check can report
PayStatuses == {"pending", "completed"}

Terminal == {"completed", "failed"}

VARIABLES
    jobs,               \* job_id -> job dict                     (main.py:56)
    payment_instances,  \* keys of the payment-monitor registry   (main.py:57)
    monitoring,         \* job_id -> its Payment object is monitoring
    startPc,            \* job_id -> position of the start_job request
    startData,          \* job_id -> request body of the start_job request
    finalizing,         \* job_id -> callbacks suspended in complete_payment
    checking,           \* job_id -> queries suspended in check_payment_status
    response,           \* the HTTP response sent by the last step, if any
    delivered,          \* job_id -> completion callbacks invoked
    execCalls,          \* job_id -> execute_crew_task invocations
    finalizeCalls,      \* job_id -> complete_payment invocations
    stopCalls,          \* job_id -> stop_status_monitoring invocations
    stopAttempts,       \* job_id -> executions of the stop-and-remove step
    checkCalls,         \* job_id -> check_payment_status invocations
    cbOk,               \* job_id -> callbacks that ran to the success end
    cbFail,             \* job_id -> callbacks that ran the except handler
    hist,               \* job_id -> the statuses the job has gone through
    queries,            \* status queries issued
    processed_message_ids,  \* the dedup registry                (main.py:51)
    waha_client,        \* the transport client was initialised  (main.py:35-41)
    inflight,           \* slot -> the webhook request handled in it
    issued              \* messages the transport has numbered so far

jobvars == <<jobs, payment_instances, monitoring, startPc, startData, finalizing,
             checking, delivered, execCalls, finalizeCalls, stopCalls,
             stopAttempts, checkCalls, cbOk, cbFail, hist, queries>>

webvars == <<processed_message_ids, waha_client, inflight, issued>>

vars == <<jobvars, response, webvars>>

counters == <<delivered, execCalls, finalizeCalls, stopCalls, stopAttempts,
              checkCalls, cbOk, cbFail>>

\* ------------------------------------------------------------- helpers
Inc(f, j) == [f EXCEPT ![j] = @ + 1]
Dec(f, j) == [f EXCEPT ![j] = @ - 1]

\* the sum of a per-job counter
RECURSIVE SumOver(_, _)
SumOver(f, S) ==
    IF S = {} THEN 0
    ELSE LET j == CHOOSE k \in S : TRUE IN f[j] + SumOver(f, S \ {j})

Total(f) == SumOver(f, DOMAIN f)

\* jobs[job_id] = {...}
Store(js, j, rec) == [k \in DOMAIN js \cup {j} |-> IF k = j THEN rec ELSE js[k]]

\* the status changes of a job, in order (an assignment of the same value is
\* no change)
RECURSIVE Track(_, _)
Track(h, sts) ==
    IF sts = <<>> THEN h
    ELSE Track(IF h # <<>> /\ h[Len(h)] = Head(sts) THEN h ELSE Append(h, Head(sts)),
               Tail(sts))

NoResponse == [op |-> "none", code |-> 0, job |-> 0, status |-> None,
               payment_status |-> None, result |-> None, detail |-> None]

\* raise HTTPException(status_code=c, detail=detail)
HttpError(op, c, j, detail) ==
    [op |-> op, code |-> c, job |-> j, status |-> None,
     payment_status |-> None, result |-> None, detail |-> detail]

\* the details of the two except clauses of start_job and of get_status
BadRequestKeyError == "Bad Request: If input_data or identifier_from_purchaser is missing"
BadRequest == "Input_data or identifier_from_purchaser is missing"
JobNotFound == "Job not found"

\* ------------------------------------------------------------ start_job
NewJob(j, data, purchaser) ==
    [status |-> "awaiting_payment",
     payment_status |-> "pending",
     payment_id |-> j,
     input_data |-> data,
     result |-> None,
     error |-> Absent,
     identifier_from_purchaser |-> purchaser]

\* POST /start_job up to the first suspension: a fresh job id, the read of
\* input_data["text"] (KeyError -> 400), then await create_payment_request.
\* The id of a request rejected before line 140 is stored nowhere.
StartJob(j) ==
    /\ startPc[j] = "idle"
    /\ \A k \in JobIds : k < j => startPc[k] # "idle"
    /\ \E data \in InputDatas :
         IF "text" \in DOMAIN data
         THEN /\ startPc' = [startPc EXCEPT ![j] = "creating"]
              /\ startData' = [startData EXCEPT ![j] = data]
              /\ response' = NoResponse
         ELSE /\ response' = HttpError("start_job", 400, j, BadRequestKeyError)
              /\ UNCHANGED <<startPc, startData>>
    /\ UNCHANGED <<jobs, payment_instances, monitoring, finalizing, checking,
                   counters, hist, queries>>

\* slip: the job is stored before the payment request is known to exist
CreatePaymentRequestReturn_StoreFirst(j) ==
    /\ startPc[j] = "creating"
    /\ \E p \in Purchasers : jobs' = Store(jobs, j, NewJob(j, startData[j], p))
    /\ hist' = [hist EXCEPT ![j] = Track(@, <<"awaiting_payment">>)]
    /\ \E out \in {"ok", "raise"} :
         IF out = "ok"
         THEN /\ payment_instances' = payment_instances \cup {j}
              /\ startPc' = [startPc EXCEPT ![j] = "monitoring"]
              /\ response' = NoResponse
         ELSE /\ startPc' = [startPc EXCEPT ![j] = "rejected"]
              /\ response' = HttpError("start_job", 400, j, BadRequest)
              /\ UNCHANGED payment_instances
    /\ UNCHANGED <<monitoring, startData, finalizing, checking, counters, queries>>

\* create_payment_request returns: the job and its monitor are registered and
\* start_status_monitoring is awaited; or it raises -> 400
CreatePaymentRequestReturn(j) ==
    /\ startPc[j] = "creating"
    /\ \E out \in {"ok", "raise"} :
         IF out = "ok"
         THEN /\ \E p \in Purchasers : jobs' = Store(jobs, j, NewJob(j, startData[j], p))
              /\ payment_instances' = payment_instances \cup {j}
              /\ hist' = [hist EXCEPT ![j] = Track(@, <<"awaiting_payment">>)]
              /\ startPc' = [startPc EXCEPT ![j] = "monitoring"]
              /\ response' = NoResponse
              /\ UNCHANGED startData
         ELSE /\ startPc' = [startPc EXCEPT ![j] = "idle"]
              /\ startData' = [startData EXCEPT ![j] = <<>>]
              /\ response' = HttpError("start_job", 400, j, BadRequest)
              /\ UNCHANGED <<jobs, payment_instances, hist>>
    /\ UNCHANGED <<monitoring, finalizing, checking, counters, queries>>

\* start_status_monitoring returns: the monitor runs and the request is
\* answered; or it raises -> 400
StartMonitoringReturn(j) ==
    /\ startPc[j] = "monitoring"
    /\ \E out \in {"ok", "raise"} :
         IF out = "ok"
         THEN /\ monitoring' = [monitoring EXCEPT ![j] = TRUE]
              /\ startPc' = [startPc EXCEPT ![j] = "done"]
              /\ response' = [op |-> "start_job", code |-> 200, job |-> j,
                              status |-> "success", payment_status |-> None,
                              result |-> None, detail |-> None]
         ELSE /\ startPc' = [startPc EXCEPT ![j] = "rejected"]
              /\ response' = HttpError("start_job", 400, j, BadRequest)
              /\ UNCHANGED monitoring
    /\ UNCHANGED <<jobs, payment_instances, startData, finalizing, checking,
                   counters, hist, queries>>

\* ------------------------------------------------ handle_payment_status
\* the registry side of a handler: payment_instances, the monitors, and the
\* calls made on them
Registry == [payment_instances |-> payment_instances, monitoring |-> monitoring,
             stopCalls |-> stopCalls]

\* slip: the monitor is stopped without the membership test
StopAndRemove_Unguarded(j, reg) ==
    [payment_instances |-> reg.payment_instances \ {j},
     monitoring |-> [reg.monitoring EXCEPT ![j] = FALSE],
     stopCalls |-> Inc(reg.stopCalls, j)]

\* slip: the entry is deleted but the monitor is never stopped
StopAndRemove_DelOnly(j, reg) ==
    [reg EXCEPT !.payment_instances = @ \ {j}]

\* slip: the monitor is stopped but its entry stays in the registry
StopAndRemove_StopOnly(j, reg) ==
    IF j \in reg.payment_instances
    THEN [reg EXCEPT !.monitoring[j] = FALSE, !.stopCalls = Inc(@, j)]
    ELSE reg

\* slip: the handler leaves the monitor and its entry alone
StopAndRemove_Never(j, reg) == reg

\* if job_id in payment_instances: stop_status_monitoring(); del
StopAndRemove(j, reg) ==
    IF j \in reg.payment_instances
    THEN [payment_instances |-> reg.payment_instances \ {j},
          monitoring |-> [reg.monitoring EXCEPT ![j] = FALSE],
          stopCalls |-> Inc(reg.stopCalls, j)]
    ELSE reg

\* slip: the result is not stored
MarkCompleted_NoResult(js, j, result) ==
    [js EXCEPT ![j].status = "completed",
               ![j].payment_status = "completed"]

\* slip: the handler marks every job of the registry
MarkCompleted_EveryJob(js, j, result) ==
    [k \in DOMAIN js |-> [js[k] EXCEPT !.status = "completed",
                                       !.payment_status = "completed",
                                       !.result = result]]

\* lines 208-210
MarkCompleted(js, j, result) ==
    [js EXCEPT ![j].status = "completed",
               ![j].payment_status = "completed",
               ![j].result = result]

\* slip: the except branch records the error but not the status
MarkFailed_StaysRunning(js, j, msg) == [js EXCEPT ![j].error = msg]

\* lines 218-219
MarkFailed(js, j, msg) ==
    [js EXCEPT ![j].status = "failed", ![j].error = msg]

SetRegistry(reg) ==
    /\ payment_instances' = reg.payment_instances
    /\ monitoring' = reg.monitoring
    /\ stopCalls' = reg.stopCalls

\* slip: the except branch does not stop the monitor
ExceptHandler_NoStop(j, msg) ==
    /\ jobs' = MarkFailed(jobs, j, msg)
    /\ UNCHANGED <<payment_instances, monitoring, stopCalls, stopAttempts>>
    /\ cbFail' = Inc(cbFail, j)

\* the except branch of handle_payment_status (lines 216-224)
ExceptHandler(j, msg) ==
    /\ jobs' = MarkFailed(jobs, j, msg)
    /\ SetRegistry(StopAndRemove(j, Registry))
    /\ stopAttempts' = Inc(stopAttempts, j)
    /\ cbFail' = Inc(cbFail, j)

\* the monitor invokes payment_callback: status := running, the executor
\* runs, and complete_payment is called on payment_instances[job_id]
Callback(j) ==
    /\ j \in DOMAIN jobs
    /\ monitoring[j]
    /\ Total(delivered) < MaxCallbacks
    /\ delivered' = Inc(delivered, j)
    /\ execCalls' = Inc(execCalls, j)
    /\ \E out \in {"ok", "raise"} :
         IF out = "raise" \/ j \notin payment_instances
         THEN /\ ExceptHandler(j, IF out = "raise" THEN "executor" ELSE "KeyError")
              /\ hist' = [hist EXCEPT ![j] = Track(@, <<"running", "failed">>)]
              /\ UNCHANGED <<finalizing, finalizeCalls, cbOk>>
         ELSE /\ jobs' = [jobs EXCEPT ![j].status = "running"]
              /\ hist' = [hist EXCEPT ![j] = Track(@, <<"running">>)]
              /\ finalizing' = Inc(finalizing, j)
              /\ finalizeCalls' = Inc(finalizeCalls, j)
              /\ UNCHANGED <<payment_instances, monitoring, stopCalls,
                             stopAttempts, cbOk, cbFail>>
    /\ response' = NoResponse
    /\ UNCHANGED <<startPc, startData, checking, checkCalls, queries>>

\* complete_payment returns to a suspended callback: the success end of the
\* handler, or its except branch
CompletePaymentReturn(j) ==
    /\ finalizing[j] > 0
    /\ finalizing' = Dec(finalizing, j)
    /\ \E out \in {"ok", "raise"} :
         IF out = "ok"
         THEN /\ jobs' = MarkCompleted(jobs, j, CrewOutput)
              /\ SetRegistry(StopAndRemove(j, Registry))
              /\ stopAttempts' = Inc(stopAttempts, j)
              /\ cbOk' = Inc(cbOk, j)
              /\ hist' = [hist EXCEPT ![j] = Track(@, <<"completed">>)]
              /\ UNCHANGED cbFail
         ELSE /\ ExceptHandler(j, "finalize")
              /\ hist' = [hist EXCEPT ![j] = Track(@, <<"failed">>)]
              /\ UNCHANGED cbOk
    /\ response' = NoResponse
    /\ UNCHANGED <<startPc, startData, checking, delivered, execCalls,
                   finalizeCalls, checkCalls, queries>>

\* ----------------------------------------------------------- get_status
\* result_data.raw if result_data and hasattr(result_data, "raw") else None
RawOf(result_data) == IF result_data = CrewOutput THEN RawText ELSE None

\* slip: the payment status is reported as the job status
StatusResponse_SwapStatus(j, job) ==
    [op |-> "status", code |-> 200, job |-> j, status |-> job.payment_status,
     payment_status |-> job.payment_status, result |-> RawOf(job.result),
     detail |-> None]

StatusResponse(j, job) ==
    [op |-> "status", code |-> 200, job |-> j, status |-> job.status,
     payment_status |-> job.payment_status, result |-> RawOf(job.result),
     detail |-> None]

\* slip: an unknown job is answered with an empty status instead of 404
GetStatus_NoNotFound(j) ==
    /\ queries < MaxQueries
    /\ queries' = queries + 1
    /\ IF j \notin DOMAIN jobs
       THEN /\ response' = [op |-> "status", code |-> 200, job |-> j,
                            status |-> None, payment_status |-> None,
                            result |-> None, detail |-> None]
            /\ UNCHANGED <<checking, checkCalls>>
       ELSE IF j \in payment_instances
            THEN /\ checking' = Inc(checking, j)
                 /\ checkCalls' = Inc(checkCalls, j)
                 /\ response' = NoResponse
            ELSE /\ response' = StatusResponse(j, jobs[j])
                 /\ UNCHANGED <<checking, checkCalls>>
    /\ UNCHANGED <<jobs, payment_instances, monitoring, startPc, startData,
                   finalizing, delivered, execCalls, finalizeCalls, stopCalls,
                   stopAttempts, cbOk, cbFail, hist>>

\* GET /status up to its suspension (or its end): 404 for an unknown job, a
\* payment status check when the job has a monitor entry
GetStatus(j) ==
    /\ queries < MaxQueries
    /\ queries' = queries + 1
    /\ IF j \notin DOMAIN jobs
       THEN /\ response' = HttpError("status", 404, j, JobNotFound)
            /\ UNCHANGED <<checking, checkCalls>>
       ELSE IF j \in payment_instances
            THEN /\ checking' = Inc(checking, j)
                 /\ checkCalls' = Inc(checkCalls, j)
                 /\ response' = NoResponse
            ELSE /\ response' = StatusResponse(j, jobs[j])
                 /\ UNCHANGED <<checking, checkCalls>>
    /\ UNCHANGED <<jobs, payment_instances, monitoring, startPc, startData,
                   finalizing, delivered, execCalls, finalizeCalls, stopCalls,
                   stopAttempts, cbOk, cbFail, hist>>

\* slip: an exception of the status check propagates out of get_status
CheckPaymentStatusReturn_Propagates(j) ==
    /\ checking[j] > 0
    /\ checking' = Dec(checking, j)
    /\ \E out \in PayStatuses \cup {"ValueError", "Exception"} :
         IF out \in PayStatuses
         THEN /\ jobs' = [jobs EXCEPT ![j].payment_status = out]
              /\ response' = StatusResponse(j, jobs'[j])
         ELSE /\ response' = HttpError("status", 500, j, out)
              /\ UNCHANGED jobs
    /\ UNCHANGED <<payment_instances, monitoring, startPc, startData, finalizing,
                   counters, hist, queries>>

\* check_payment_status returns to a suspended query: payment_status is
\* refreshed, or degraded to unknown (ValueError) / error (other exception)
CheckPaymentStatusReturn(j) ==
    /\ checking[j] > 0
    /\ checking' = Dec(checking, j)
    /\ \E out \in PayStatuses \cup {"ValueError", "Exception"} :
         jobs' = [jobs EXCEPT ![j].payment_status =
                     CASE out = "ValueError" -> "unknown"
                       [] out = "Exception" -> "error"
                       [] OTHER -> out]
    /\ response' = StatusResponse(j, jobs'[j])
    /\ UNCHANGED <<payment_instances, monitoring, startPc, startData, finalizing,
                   counters, hist, queries>>


\* ====================================================== webhook pipeline
\* POST /webhook: handle_webhook and process_waha_message.  A request runs
\* atomically up to `await asyncio.sleep(1)`, then up to the awaited reply
\* send, then up to the awaited apology send.

MaxMsgIds == 2
MaxSlots == 2
MaxOverflow == 2

\* len(processed_message_ids) > 1000
DedupCap == 1000

Slots == 1..MaxSlots
FirstSlot == CHOOSE s \in Slots : \A t \in Slots : s <= t

\* ----------------------------------------------------------- JSON values
\* a string-valued field of the payload: a string (a sequence of characters,
\* or of tokens for chat ids), null, or a missing key
Missing == "Missing"
\* a JSON object or array where a string is expected: not hashable
Unhashable == "Unhashable"
Str(v) == [k |-> "str", v |-> v]
NoneV == [k |-> "null", v |-> <<>>]
MissingV == [k |-> "missing", v |-> <<>>]
Unset == [k |-> "unset", v |-> <<>>]

\* dict.get(key) and dict.get(key, default)
GetV(x) == IF x.k = "missing" THEN NoneV ELSE x
GetD(x, default) == IF x.k = "missing" THEN default ELSE x

\* truth value of a string or None
Truthy(x) == x.k = "str" /\ x.v # <<>>

\* ---------------------------------------------------------- str methods
Whitespace == {" "}

LowerChar(c) ==
    CASE c = "G" -> "g"
      [] c = "H" -> "h"
      [] c = "I" -> "i"
      [] OTHER -> c

Lower(t) == [i \in 1..Len(t) |-> LowerChar(t[i])]

StartsWith(t, prefix) ==
    Len(t) >= Len(prefix) /\ SubSeq(t, 1, Len(prefix)) = prefix

EndsWith(t, suffix) ==
    Len(t) >= Len(suffix) /\ SubSeq(t, Len(t) - Len(suffix) + 1, Len(t)) = suffix

\* sub in t
Contains(t, sub) ==
    \E i \in 1..(Len(t) - Len(sub) + 1) : SubSeq(t, i, i + Len(sub) - 1) = sub

RECURSIVE LStrip(_)
LStrip(t) == IF t # <<>> /\ Head(t) \in Whitespace THEN LStrip(Tail(t)) ELSE t

RECURSIVE RStrip(_)
RStrip(t) ==
    IF t # <<>> /\ t[Len(t)] \in Whitespace THEN RStrip(SubSeq(t, 1, Len(t) - 1)) ELSE t

Strip(t) == RStrip(LStrip(t))

\* t[n:]
From(t, n) == SubSeq(t, n + 1, Len(t))

\* the trigger keyword of line 478
Keyword == <<"g", "g">>

\* --------------------------------------------------------------- events
\* chat ids, as the local part followed by the domain suffix
GroupSuffix == "@g.us"
UserSuffix == "@c.us"
User1 == Str(<<"1", UserSuffix>>)
User2 == Str(<<"2", UserSuffix>>)
Group555 == Str(<<"555", GroupSuffix>>)
Group777 == Str(<<"777", GroupSuffix>>)
InternalId == Str(<<"abc">>)
\* a chat id that holds the group domain without ending with it
LongId == Str(<<"555", GroupSuffix, ":9">>)

\* from, to and what else the payload holds (nothing, known groups' names,
\* a group id): a direct chat, a group message from someone else, a group
\* message of the account itself, both fields naming a group, an internal
\* chat id (unmapped, mapped by name, mapped by a group id found in the
\* payload, both found), a chat id with a trailer, no "to" at all
Chats ==
    {<<User1, User2, <<>> >>,
     <<Group555, User1, <<>> >>,
     <<User1, Group555, <<>> >>,
     <<Group555, Group777, <<>> >>,
     <<User1, InternalId, <<>> >>,
     <<User1, InternalId, <<"nerds">> >>,
     <<User1, InternalId, <<"Uber", "NERDS">> >>,
     <<User1, InternalId, <<"120", GroupSuffix>> >>,
     <<User1, InternalId, <<"120", GroupSuffix, "UBER">> >>,
     <<Group555, InternalId, <<"nerds">> >>,
     <<User1, LongId, <<>> >>,
     <<User1, MissingV, <<>> >>}
Types == {"chat", "image"}
Senders == {"dict", "null"}
Bodies == {MissingV, NoneV,
           Str(<<>>), Str(<<" ">>), Str(<<"h", "i">>),
           Str(<<"g", "g">>), Str(<<"g", "g", " ">>),
           Str(<<"g", "g", " ", "h", "i">>), Str(<<"G", "g", "h", "i">>),
           Str(<<" ", "g", "g", " ", "h", "i">>)}

MsgIds == {ToString(i) : i \in 1..MaxMsgIds}

Event(json, event, payload, id, from, to, type, body, sender, extra) ==
    [json |-> json, event |-> event, payload |-> payload, id |-> id,
     from |-> from, to |-> to, type |-> type, body |-> body,
     sender |-> sender, extra |-> extra]

Bare(json, event, payload) ==
    Event(json, event, payload, Missing, MissingV, MissingV, Missing, MissingV,
          "dict", <<>>)

NoEvent == Bare("none", Missing, "dict")

\* message events with a payload object
PayloadEvents(ids) ==
    {Event("ok", "message", "dict", id, c[1], c[2], ty, b, sn, c[3]) :
        id \in ids, c \in Chats, ty \in Types, b \in Bodies, sn \in Senders}

\* a body that is no JSON, a JSON array, an event of another type, a message
\* event under the other event name, with a null payload, with no payload
OtherEvents ==
    {Bare("invalid", Missing, "dict"),
     Bare("notdict", Missing, "dict"),
     Bare("ok", "session.status", "dict"),
     Bare("ok", Missing, "dict"),
     Bare("ok", "message", "null"),
     Bare("ok", "message", "dict"),
     Event("ok", "message.any", "dict", "1", User1, User2, "text",
           Str(<<"g", "g", " ", "h", "i">>), "dict", <<>>),
     Event("ok", "message", "dict", Unhashable, User1, User2, "chat",
           Str(<<"h", "i">>), "dict", <<>>),
     Event("ok", "message", "dict", "1", User1, User2, Missing,
           Str(<<"g", "g", " ", "h", "i">>), Missing, <<>>)}

\* a text message of a direct chat: a plain text, a command
DedupBodies == {Str(<<"h", "i">>), Str(<<"g", "g", " ", "h", "i">>)}
DedupEvent(id, body) ==
    Event("ok", "message", "dict", id, User1, User2, "chat", body, "dict", <<>>)

\* text messages of one direct chat under the ids the transport uses
RaceEvents == {DedupEvent(id, b) : id \in MsgIds, b \in DedupBodies}

WebhookEvents == PayloadEvents(MsgIds) \cup OtherEvents

IsMessageEvent_Any(e) == e.json = "ok"

\* event_type in ["message", "message.any"]
IsMessageEvent(e) == e.json = "ok" /\ e.event \in {"message", "message.any"}

\* message_data.get("id")
MessageId(e) == IF e.id = Missing THEN None ELSE e.id

\* ---------------------------------------------------- chat-id resolution
ResolveChatId_ToFirst(e) ==
    LET to_field == GetV(e.to)
        from_field == GetV(e.from)
    IN  IF Truthy(to_field) /\ Contains(to_field.v, <<GroupSuffix>>)
        THEN to_field
        ELSE IF Truthy(from_field) /\ Contains(from_field.v, <<GroupSuffix>>)
             THEN from_field
             ELSE to_field

\* lines 424-438 (and 545-553)
ResolveChatId(e) ==
    LET to_field == GetV(e.to)
        from_field == GetV(e.from)
    IN  IF Truthy(from_field) /\ Contains(from_field.v, <<GroupSuffix>>)
        THEN from_field
        ELSE IF Truthy(to_field) /\ Contains(to_field.v, <<GroupSuffix>>)
             THEN to_field
             ELSE to_field

\* known_groups, in dict order
KnownGroups ==
    << [name |-> "nerds", id |-> <<"120363422170611614", GroupSuffix>>],
       [name |-> "BTC-svip-76", id |-> <<"120363038777117231", GroupSuffix>>],
       [name |-> "Golfing", id |-> <<"13065365236-1631906035", GroupSuffix>>],
       [name |-> "Uber", id |-> <<"17059848341-1629060796", GroupSuffix>>],
       [name |-> "Apple Tree-ers", id |-> <<"17059848341-1626995520", GroupSuffix>>] >>

\* str(webhook_data), as tokens (the message text, kept as characters,
\* holds none of the names)
Serialized(e) == GetV(e.from).v \o GetV(e.to).v \o e.extra

\* str.lower() of a token
LowerToken(t) ==
    CASE t \in {"nerds", "NERDS"} -> "nerds"
      [] t \in {"BTC-svip-76"} -> "btc-svip-76"
      [] t \in {"Golfing"} -> "golfing"
      [] t \in {"Uber", "UBER"} -> "uber"
      [] t \in {"Apple Tree-ers"} -> "apple tree-ers"
      [] OTHER -> t

LowerTokens(ts) == [i \in 1..Len(ts) |-> LowerToken(ts[i])]

\* tokens that consist of digits
DigitTokens == {"1", "2", "120", "555", "777"}

MapInternalId_IdFirst(internal_id, e) ==
    LET ser == Serialized(e)
        webhook_str == LowerTokens(ser)
        named == {i \in 1..Len(KnownGroups) :
                     Contains(webhook_str, <<LowerToken(KnownGroups[i].name)>>)}
        shaped == {i \in 1..(Len(ser) - 1) :
                      ser[i] \in DigitTokens /\ ser[i + 1] = GroupSuffix}
    IN  IF shaped # {}
        THEN LET i == CHOOSE i \in shaped : \A k \in shaped : i <= k
             IN  Str(<<ser[i], GroupSuffix>>)
        ELSE IF named # {}
             THEN Str(KnownGroups[CHOOSE i \in named : \A k \in named : i <= k].id)
             ELSE internal_id

\* map_waha_internal_id_to_group_id
MapInternalId(internal_id, e) ==
    LET ser == Serialized(e)
        webhook_str == LowerTokens(ser)
        named == {i \in 1..Len(KnownGroups) :
                     Contains(webhook_str, <<LowerToken(KnownGroups[i].name)>>)}
        shaped == {i \in 1..(Len(ser) - 1) :
                      ser[i] \in DigitTokens /\ ser[i + 1] = GroupSuffix}
    IN  IF named # {}
        THEN Str(KnownGroups[CHOOSE i \in named : \A k \in named : i <= k].id)
        ELSE IF shaped # {}
             THEN LET i == CHOOSE i \in shaped : \A k \in shaped : i <= k
                  IN  Str(<<ser[i], GroupSuffix>>)
             ELSE internal_id

\* line 450: chat_id and not chat_id.endswith(('@c.us', '@g.us'))
NeedsMapping(chat_id) ==
    /\ Truthy(chat_id)
    /\ ~EndsWith(chat_id.v, <<UserSuffix>>)
    /\ ~EndsWith(chat_id.v, <<GroupSuffix>>)

FinalChatId(e) ==
    LET chat_id == ResolveChatId(e)
    IN  IF NeedsMapping(chat_id) THEN MapInternalId(chat_id, e) ELSE chat_id


\* ------------------------------------------------------- response shaping
\* max_response_length
MaxResponseLength == 200

\* one code point of each kind the pattern of line 510 removes, and the robot
\* of the wrapper (U+1F916, inside the range 1F900-1F9FF of the pattern)
Grin == "U+1F600"
Sun == "U+2600"
Robot == "U+1F916"
EmojiChars == {Grin, Sun, Robot}

Ellipsis == <<".", ".", ".">>

\* n times the character c
Rep(c, n) == [i \in 1..n |-> c]

\* t.rsplit(' ', 1)[0]
RSplitHead(t) ==
    LET spaces == {i \in 1..Len(t) : t[i] = " "}
    IN  IF spaces = {} THEN t
        ELSE SubSeq(t, 1, (CHOOSE i \in spaces : \A k \in spaces : k <= i) - 1)

\* lines 501-503
Truncate(response_text) ==
    IF Len(response_text) > MaxResponseLength
    THEN RSplitHead(SubSeq(response_text, 1, MaxResponseLength)) \o Ellipsis
    ELSE response_text

\* re.sub(r'^[<emoji ranges>\s]*', '', t)
RECURSIVE StripLeadingEmoji(_)
StripLeadingEmoji(t) ==
    IF t # <<>> /\ Head(t) \in EmojiChars \cup Whitespace
    THEN StripLeadingEmoji(Tail(t)) ELSE t

\* clean_response of line 510
CleanResponse(response_text) == StripLeadingEmoji(Strip(Truncate(response_text)))

\* formatted_response of line 511
Format(clean_response) == <<Robot, " ", "_">> \o clean_response \o <<"_">>

\* the text of the apology, line 558
ApologyText == <<"Sorry, I encountered an error processing your message.">>

\* what the executor returns (result.raw): short texts, with leading emoji
\* or surrounding whitespace, and texts around and beyond the limit, without
\* a space, with the last space in the middle, at the limit, beyond the
\* limit, at the very start
Outputs ==
    {<<"o", "k">>,
     <<" ", "o", "k">>,
     <<"o", "k", " ">>,
     <<Grin, " ", "o", "k">>,
     <<Sun, "o", " ", "k">>,
     Rep("a", MaxResponseLength - 1),
     Rep("a", MaxResponseLength),
     Rep("a", MaxResponseLength + 1),
     Rep("a", MaxResponseLength + 50),
     Rep("a", 100) \o <<" ">> \o Rep("a", 149),
     Rep("a", MaxResponseLength - 1) \o <<" ">> \o Rep("a", 50),
     Rep("a", MaxResponseLength) \o <<" ">> \o Rep("a", 49),
     <<" ">> \o Rep("a", MaxResponseLength + 49),
     <<Grin>> \o Rep("a", 120) \o <<" ">> \o Rep("a", 120)}

\* a short answer of the executor
ShortOutputs == {<<"o", "k">>}

\* ------------------------------------------------------------- requests
\* one webhook request: where it is suspended, what it has done so far
Proc(pc, e, stage, status) ==
    [pc |-> pc, ev |-> e, stage |-> stage, status |-> status,
     message_id |-> None, dest |-> Unset, chat_id |-> Unset, clean |-> <<>>,
     recorded |-> FALSE, resolved |-> FALSE, mapped |-> FALSE, readAttempts |-> 0,
     execs |-> 0, output |-> <<>>, body |-> <<>>, sends |-> <<>>,
     delivered |-> <<>>]

Idle == Proc("idle", NoEvent, "idle", None)

WebhookResponse_Raises(status) ==
    [op |-> "webhook", code |-> IF status = "error" THEN 500 ELSE 200, job |-> 0,
     status |-> status, payment_status |-> None, result |-> None, detail |-> None]

\* return {"status": "ok"} / return {"status": "error", "message": str(e)}
WebhookResponse(status) ==
    [op |-> "webhook", code |-> 200, job |-> 0, status |-> status,
     payment_status |-> None, result |-> None, detail |-> None]

Seen_Never(message_id, reg) == FALSE

\* message_id in processed_message_ids
Seen(message_id, reg) == message_id \in reg

Record_NoClear(message_id, reg) == reg \cup {message_id}

Record_Deferred(message_id, reg) == reg

\* processed_message_ids.add(message_id), then the size check of line 411
Record(message_id, reg) ==
    LET added == reg \cup {message_id}
    IN  IF Cardinality(added) > DedupCap THEN {} ELSE added

\* waha_client.send_text_message(to=..., message=..., reply_to_message_id=...)
SendCall(kind, to, message, reply_to) ==
    [kind |-> kind, to |-> to, message |-> message, reply_to |-> reply_to]

\* process_waha_message returned: handle_webhook answers "ok"
Return(p, stage) == [p EXCEPT !.pc = "done", !.stage = stage, !.status = "ok"]

\* the outer except of process_waha_message: the chat id is resolved again,
\* without the mapping, and the apology is sent when it is truthy; whatever
\* is raised in here is swallowed
OuterExcept(p) ==
    IF p.ev.payload = "null"
    THEN Return(p, "raised")
    ELSE LET chat_id == ResolveChatId(p.ev)
         IN  IF Truthy(chat_id)
             THEN [p EXCEPT !.pc = "apologizing", !.stage = "raised",
                            !.sends = Append(@, SendCall("apology", chat_id,
                                                         ApologyText,
                                                         MessageId(p.ev)))]
             ELSE Return(p, "raised")

ReadReceipt_Propagates(p) == OuterExcept([p EXCEPT !.readAttempts = @ + 1])

\* lines 457-460: main.py calls mark_as_read(message_id, chat_id) while
\* waha_client.py declares mark_as_read(self, message_id), so the call is
\* rejected with TypeError before anything is sent; the except clause
\* swallows it and the request goes on
ReadReceipt(p) == [p EXCEPT !.readAttempts = @ + 1]

\* process_waha_message from the chat-id resolution to the first suspension.
\* A null sender raises at line 441 and a null body at line 447.
FromResolution(p) ==
    LET e == p.ev
        q == [p EXCEPT !.resolved = TRUE, !.dest = ResolveChatId(e),
                       !.chat_id = ResolveChatId(e)]
        mapped == [q EXCEPT !.mapped = NeedsMapping(q.dest),
                            !.chat_id = FinalChatId(e)]
        r == ReadReceipt(mapped)
        message_type == IF e.type = Missing THEN "chat" ELSE e.type
        message_text == GetD(e.body, Str(<<>>)).v
        clean_message == Strip(From(message_text, 2))
    IN  IF e.sender = "null" \/ e.body.k = "null"
        THEN OuterExcept(q)
        ELSE IF r.pc # "running"
        THEN r
        ELSE IF message_type \notin {"text", "chat"}
        THEN Return(r, "nontext")
        ELSE IF Strip(message_text) = <<>>
        THEN Return(r, "empty")
        ELSE IF ~StartsWith(Lower(message_text), Keyword)
        THEN Return(r, "nokeyword")
        ELSE IF clean_message = <<>>
        THEN Return(r, "nocommand")
        ELSE [r EXCEPT !.pc = "sleeping", !.stage = "triggered",
                       !.clean = clean_message]

\* slip: the id is recorded once the message has passed the filters
Arrive_RecordsAfterFilters(e, reg, client) ==
    LET p == Proc("running", e, "running", None)
        message_id == MessageId(e)
        q == [p EXCEPT !.message_id = message_id]
        r == FromResolution(q)
    IN  IF e.json # "ok"
        THEN [proc |-> [p EXCEPT !.pc = "done", !.stage = "badbody", !.status = "error"],
              reg |-> reg]
        ELSE IF ~IsMessageEvent(e)
        THEN [proc |-> Return(p, "nonmessage"), reg |-> reg]
        ELSE IF ~client
        THEN [proc |-> Return(p, "noclient"), reg |-> reg]
        ELSE IF e.payload = "null" \/ message_id = Unhashable
        THEN [proc |-> OuterExcept(p), reg |-> reg]
        ELSE IF Seen(message_id, reg)
        THEN [proc |-> Return(q, "duplicate"), reg |-> reg]
        ELSE IF r.pc = "sleeping"
        THEN [proc |-> [r EXCEPT !.recorded = TRUE], reg |-> Record(message_id, reg)]
        ELSE [proc |-> r, reg |-> reg]

\* the request's record and the registry when the handler first suspends or
\* returns
Arrive(e, reg, client) ==
    LET p == Proc("running", e, "running", None)
        message_id == MessageId(e)
        q == [p EXCEPT !.message_id = message_id]
    IN  IF e.json # "ok"
        THEN [proc |-> [p EXCEPT !.pc = "done", !.stage = "badbody", !.status = "error"],
              reg |-> reg]
        ELSE IF ~IsMessageEvent(e)
        THEN [proc |-> Return(p, "nonmessage"), reg |-> reg]
        ELSE IF ~client
        THEN [proc |-> Return(p, "noclient"), reg |-> reg]
        ELSE IF e.payload = "null" \/ message_id = Unhashable
        THEN [proc |-> OuterExcept(p), reg |-> reg]
        ELSE IF Seen(message_id, reg)
        THEN [proc |-> Return(q, "duplicate"), reg |-> reg]
        ELSE [proc |-> FromResolution([q EXCEPT !.recorded = TRUE]),
              reg |-> Record(message_id, reg)]

\* what the handler answers once the request is done
Answer(p) == IF p.pc = "done" THEN WebhookResponse(p.status) ELSE NoResponse

\* a webhook request arrives and runs to its first suspension
Handle(s, e) ==
    /\ inflight[s].pc = "idle"
    /\ LET a == Arrive(e, processed_message_ids, waha_client)
       IN  /\ inflight' = [inflight EXCEPT ![s] = a.proc]
           /\ processed_message_ids' = a.reg
           /\ response' = Answer(a.proc)
    /\ UNCHANGED <<waha_client, jobvars>>

HandleWebhook(s, e) == Handle(s, e) /\ UNCHANGED issued

\* the transport delivers its next message, under an id it has not used
DeliverNew(s) ==
    /\ issued < DedupCap + MaxOverflow
    /\ \E b \in DedupBodies : Handle(s, DedupEvent(ToString(issued + 1), b))
    /\ issued' = issued + 1

\* the transport delivers its latest message once more
Redeliver(s) ==
    /\ issued > 0
    /\ \E b \in DedupBodies : Handle(s, DedupEvent(ToString(issued), b))
    /\ UNCHANGED issued

\* asyncio.sleep returns; the executor runs, returning one of `outputs`, and
\* the reply is sent, or the executor raises
SleepReturn(s, outputs) ==
    /\ inflight[s].pc = "sleeping"
    /\ LET p == [inflight[s] EXCEPT !.execs = @ + 1]
       IN  \/ \E raw \in outputs :
                /\ inflight' = [inflight EXCEPT ![s] =
                       [p EXCEPT !.pc = "sending",
                                 !.output = raw,
                                 !.body = CleanResponse(raw),
                                 !.sends = Append(@,
                                     SendCall("reply", p.chat_id,
                                              Format(CleanResponse(raw)),
                                              p.message_id))]]
                /\ response' = NoResponse
           \/ /\ inflight' = [inflight EXCEPT ![s] = OuterExcept(p)]
              /\ response' = Answer(OuterExcept(p))
    /\ UNCHANGED <<processed_message_ids, waha_client, issued, jobvars>>

\* slip: the reply goes out and the request raises after it
SendReturn_RaisesAfterReply(s) ==
    /\ inflight[s].pc = "sending"
    /\ LET p == [inflight[s] EXCEPT !.delivered = Append(@, "reply")]
       IN  /\ inflight' = [inflight EXCEPT ![s] = OuterExcept(p)]
           /\ response' = Answer(OuterExcept(p))
    /\ UNCHANGED <<processed_message_ids, waha_client, issued, jobvars>>

\* the reply send returns or raises (raised again at line 533)
SendReturn(s) ==
    /\ inflight[s].pc = "sending"
    /\ LET p == inflight[s]
           sent == Return([p EXCEPT !.delivered = Append(@, "reply")], "replied")
       IN  \/ /\ inflight' = [inflight EXCEPT ![s] = sent]
              /\ response' = Answer(sent)
           \/ /\ inflight' = [inflight EXCEPT ![s] = OuterExcept(p)]
              /\ response' = Answer(OuterExcept(p))
    /\ UNCHANGED <<processed_message_ids, waha_client, issued, jobvars>>

\* the apology send returns or raises (swallowed at line 561)
ApologyReturn(s) ==
    /\ inflight[s].pc = "apologizing"
    /\ LET p == inflight[s]
       IN  \E ok \in BOOLEAN :
              LET q == Return([p EXCEPT !.delivered =
                                  IF ok THEN Append(@, "apology") ELSE @], "raised")
              IN  /\ inflight' = [inflight EXCEPT ![s] = q]
                  /\ response' = Answer(q)
    /\ UNCHANGED <<processed_message_ids, waha_client, issued, jobvars>>

\* the response has gone out; the request is over
Finish(s) ==
    /\ inflight[s].pc = "done"
    /\ inflight' = [inflight EXCEPT ![s] = Idle]
    /\ response' = NoResponse
    /\ UNCHANGED <<processed_message_ids, waha_client, issued, jobvars>>

\* -------------------------------------------------------- specification
\* the job state after module import
JobInit ==
    /\ jobs = <<>>
    /\ payment_instances = {}
    /\ monitoring = [j \in JobIds |-> FALSE]
    /\ startPc = [j \in JobIds |-> "idle"]
    /\ startData = [j \in JobIds |-> <<>>]
    /\ finalizing = [j \in JobIds |-> 0]
    /\ checking = [j \in JobIds |-> 0]
    /\ response = NoResponse
    /\ delivered = [j \in JobIds |-> 0]
    /\ execCalls = [j \in JobIds |-> 0]
    /\ finalizeCalls = [j \in JobIds |-> 0]
    /\ stopCalls = [j \in JobIds |-> 0]
    /\ stopAttempts = [j \in JobIds |-> 0]
    /\ checkCalls = [j \in JobIds |-> 0]
    /\ cbOk = [j \in JobIds |-> 0]
    /\ cbFail = [j \in JobIds |-> 0]
    /\ hist = [j \in JobIds |-> <<>>]
    /\ queries = 0

\* the webhook state after module import
WebInit ==
    /\ processed_message_ids = {}
    /\ inflight = [s \in Slots |-> Idle]
    /\ issued = 0

\* the paid-job endpoints, with the transport client initialised
Init ==
    /\ JobInit
    /\ WebInit
    /\ waha_client = TRUE

Next ==
    \/ \E j \in JobIds : StartJob(j) /\ UNCHANGED webvars
    \/ \E j \in JobIds : CreatePaymentRequestReturn(j) /\ UNCHANGED webvars
    \/ \E j \in JobIds : StartMonitoringReturn(j) /\ UNCHANGED webvars
    \/ \E j \in JobIds : Callback(j) /\ UNCHANGED webvars
    \/ \E j \in JobIds : CompletePaymentReturn(j) /\ UNCHANGED webvars
    \/ \E j \in JobIds : GetStatus(j) /\ UNCHANGED webvars
    \/ \E j \in JobIds : CheckPaymentStatusReturn(j) /\ UNCHANGED webvars

Spec == Init /\ [][Next]_vars

\* the life of the paid jobs, from the request to the end of the callbacks;
\* every awaited complete_payment returns or raises, so that a suspended
\* callback is resumed in the end
NextLive ==
    \/ \E j \in JobIds : StartJob(j) /\ UNCHANGED webvars
    \/ \E j \in JobIds : CreatePaymentRequestReturn(j) /\ UNCHANGED webvars
    \/ \E j \in JobIds : StartMonitoringReturn(j) /\ UNCHANGED webvars
    \/ \E j \in JobIds : Callback(j) /\ UNCHANGED webvars
    \/ \E j \in JobIds : CompletePaymentReturn(j) /\ UNCHANGED webvars

Fairness ==
    \A j \in JobIds : WF_vars(CompletePaymentReturn(j) /\ UNCHANGED webvars)

SpecLive == Init /\ [][NextLive]_vars /\ Fairness

\* the webhook endpoint, one request at a time, the transport client
\* initialised or not
InitWebhook ==
    /\ JobInit
    /\ WebInit
    /\ waha_client \in BOOLEAN

NextWebhook ==
    \/ \E e \in WebhookEvents : HandleWebhook(FirstSlot, e)
    \/ SleepReturn(FirstSlot, Outputs)
    \/ SendReturn(FirstSlot)
    \/ ApologyReturn(FirstSlot)
    \/ Finish(FirstSlot)

SpecWebhook == InitWebhook /\ [][NextWebhook]_vars

\* the webhook endpoint fed with consecutively numbered messages, each
\* delivered once or more, up to and beyond the registry's cap
NextDedup ==
    \/ DeliverNew(FirstSlot)
    \/ Redeliver(FirstSlot)
    \/ SleepReturn(FirstSlot, ShortOutputs)
    \/ SendReturn(FirstSlot)
    \/ ApologyReturn(FirstSlot)
    \/ Finish(FirstSlot)

SpecDedup == Init /\ [][NextDedup]_vars

\* the webhook endpoint handling MaxSlots requests concurrently: each
\* arrives at any time and runs interleaved with the others at its
\* suspension points
NextRace ==
    \/ \E s \in Slots : \E e \in RaceEvents : HandleWebhook(s, e)
    \/ \E s \in Slots : SleepReturn(s, ShortOutputs)
    \/ \E s \in Slots : SendReturn(s)
    \/ \E s \in Slots : ApologyReturn(s)

SpecRace == Init /\ [][NextRace]_vars

\* the webhook endpoint next to the job endpoint: jobs are started while
\* webhook requests of every event type are handled, one at a time
NextFrame ==
    \/ \E j \in JobIds : StartJob(j) /\ UNCHANGED webvars
    \/ \E j \in JobIds : CreatePaymentRequestReturn(j) /\ UNCHANGED webvars
    \/ \E j \in JobIds : StartMonitoringReturn(j) /\ UNCHANGED webvars
    \/ \E e \in OtherEvents : HandleWebhook(FirstSlot, e)
    \/ SleepReturn(FirstSlot, ShortOutputs)
    \/ SendReturn(FirstSlot)
    \/ ApologyReturn(FirstSlot)
    \/ Finish(FirstSlot)

SpecFrame == Init /\ [][NextFrame]_vars

\* ---------------------------------------------------------------- claims
StatusOf(j) == jobs[j].status

\* C1: every job starts in awaiting_payment, and a job whose completion
\* callbacks all succeeded (executor and finalization) has gone
\* awaiting_payment -> running -> completed, in that order, is completed and
\* has its result populated.
C1_SuccessPath ==
    \A j \in DOMAIN jobs :
        /\ hist[j][1] = "awaiting_payment"
        /\ (cbOk[j] >= 1 /\ cbFail[j] = 0) =>
              /\ hist[j] = <<"awaiting_payment", "running", "completed">>
              /\ StatusOf(j) = "completed"
              /\ jobs[j].result = CrewOutput

C1_Witness ==
    \E j \in DOMAIN jobs :
        cbOk[j] >= 1 /\ cbFail[j] = 0 /\ StatusOf(j) = "completed"

\* C2: once a callback of a job has failed (executor or finalization raised)
\* and no callback of the job is still in flight, the job is failed, with
\* error populated and result absent.
C2_FailurePath ==
    \A j \in DOMAIN jobs :
        (cbFail[j] >= 1 /\ finalizing[j] = 0) =>
            /\ StatusOf(j) = "failed"
            /\ jobs[j].error # Absent
            /\ jobs[j].result = None

\* C3: for every job, result is set iff status = completed.
C3_ResultIffCompleted ==
    \A j \in DOMAIN jobs : (jobs[j].result # None) <=> (StatusOf(j) = "completed")

\* C4: for every job, error is present iff status = failed.
C4_ErrorIffFailed ==
    \A j \in DOMAIN jobs : (jobs[j].error # Absent) <=> (StatusOf(j) = "failed")

\* C5: a job's status only moves awaiting_payment -> running -> {completed,
\* failed}: the statuses a job has gone through are a prefix of one of the two
\* paths.
C5_NoReversal ==
    \A j \in DOMAIN jobs :
        hist[j] \in {<<"awaiting_payment">>,
                     <<"awaiting_payment", "running">>,
                     <<"awaiting_payment", "running", "completed">>,
                     <<"awaiting_payment", "running", "failed">>}

\* C6: no job is executed, or finalized against the payment service, more
\* than once.
C6_ExecutedAtMostOnce ==
    \A j \in JobIds : execCalls[j] <= 1 /\ finalizeCalls[j] <= 1

\* C7: stop_status_monitoring has been called exactly once for a job in a
\* terminal state, and not at all for a job that is not terminal yet.
C7_StoppedExactlyOnce ==
    \A j \in DOMAIN jobs :
        stopCalls[j] = IF StatusOf(j) \in Terminal THEN 1 ELSE 0

\* both paths have stopped a monitor, and a racing callback ended on a job
\* whose monitor was stopped already
C7_Witness ==
    /\ \E j \in DOMAIN jobs :
         StatusOf(j) \in Terminal /\ stopAttempts[j] >= 2 /\ stopCalls[j] = 1
    /\ \E j \in DOMAIN jobs : StatusOf(j) = "failed" /\ stopCalls[j] = 1

\* C8: a stop-and-remove step performed for a job whose entry is gone (the
\* step was performed before) calls stop on no monitor and leaves the
\* registries unchanged.
C8_StopAndRemoveIdempotent ==
    [][\A j \in JobIds :
         (stopAttempts'[j] > stopAttempts[j] /\ j \notin payment_instances) =>
             /\ stopCalls' = stopCalls
             /\ payment_instances' = payment_instances
             /\ monitoring' = monitoring
             /\ DOMAIN jobs' = DOMAIN jobs]_vars

C8_Witness ==
    \E j \in JobIds :
        stopAttempts[j] >= 2 /\ stopCalls[j] = 1 /\ j \notin payment_instances

\* C9: a job in a terminal state has its monitor stopped, and no completion
\* callback is invoked for it in any later step.
C9_NoCallbackAfterStop ==
    [][/\ \A j \in DOMAIN jobs' :
            jobs'[j].status \in Terminal => ~monitoring'[j]
       /\ \A j \in DOMAIN jobs :
            StatusOf(j) \in Terminal => delivered'[j] = delivered[j]]_vars

\* a terminal job whose monitor is stopped, with deliveries still within the
\* model's bound
C9_Witness ==
    \E j \in DOMAIN jobs :
        /\ StatusOf(j) \in Terminal
        /\ ~monitoring[j]
        /\ delivered[j] >= 1
        /\ Total(delivered) < MaxCallbacks

\* C10: a job in a terminal state has no entry in payment_instances, and no
\* step (a status query in particular) makes a payment status check for it.
C10_TerminalHasNoMonitor ==
    [][/\ \A j \in DOMAIN jobs' :
            jobs'[j].status \in Terminal => j \notin payment_instances'
       /\ \A j \in DOMAIN jobs :
            StatusOf(j) \in Terminal => checkCalls'[j] = checkCalls[j]]_vars

\* a status query answered for a terminal job
C10_Witness ==
    /\ response.op = "status"
    /\ response.code = 200
    /\ response.status \in Terminal
    /\ response.job \notin payment_instances
    /\ checkCalls[response.job] = 0

QueryArrives == queries' > queries
CheckReturns(j) == checking'[j] < checking[j]

\* C12: a status query for a job id that is not in the job registry is
\* answered 404 at once, starts no payment status check and leaves the job
\* registry and the payment-monitor registry unchanged; 404 is answered for
\* no other query.
C12_UnknownJobNotFound ==
    [][/\ \A j \in JobIds : checkCalls'[j] > checkCalls[j] => j \in DOMAIN jobs
       /\ (QueryArrives /\ checkCalls' = checkCalls) =>
             /\ response'.op = "status"
             /\ response'.code = IF response'.job \in DOMAIN jobs THEN 200 ELSE 404
       /\ (response'.op = "status" /\ response'.code = 404) =>
             /\ response'.job \notin DOMAIN jobs
             /\ response'.detail = JobNotFound
             /\ jobs' = jobs
             /\ payment_instances' = payment_instances
             /\ monitoring' = monitoring
             /\ checkCalls' = checkCalls
             /\ checking' = checking]_vars

C12_Witness ==
    /\ response.op = "status"
    /\ response.code = 404
    /\ DOMAIN jobs # {}
    /\ response.job \notin DOMAIN jobs

\* C13: a step of a status query changes at most the payment_status of the
\* queried job, and a query whose status check returned, normally or with an
\* exception, is answered 200 with the job's payment_status, which is the
\* degraded value unknown or error after an exception.
C13_QueryFrame ==
    [][(QueryArrives \/ \E j \in JobIds : CheckReturns(j)) =>
          /\ payment_instances' = payment_instances
          /\ monitoring' = monitoring
          /\ DOMAIN jobs' = DOMAIN jobs
          /\ \A k \in DOMAIN jobs :
                /\ [jobs'[k] EXCEPT !.payment_status = jobs[k].payment_status] = jobs[k]
                /\ jobs'[k] # jobs[k] => CheckReturns(k)
          /\ \A j \in JobIds : CheckReturns(j) =>
                /\ response'.op = "status"
                /\ response'.code = 200
                /\ response'.job = j
                /\ response'.status = jobs[j].status
                /\ response'.payment_status = jobs'[j].payment_status
                /\ jobs'[j].payment_status \in PayStatuses \cup {"unknown", "error"}]_vars

\* a query answered with a degraded payment status
C13_Witness ==
    /\ response.op = "status"
    /\ response.code = 200
    /\ response.payment_status \in {"unknown", "error"}
    /\ jobs[response.job].payment_status = response.payment_status

\* C14: when start_job answers 400, neither registry holds an entry for the
\* request's job id.
C14_RejectedStartLeavesNoState ==
    (response.op = "start_job" /\ response.code = 400) =>
        /\ response.job \notin DOMAIN jobs
        /\ response.job \notin payment_instances

Triggered(e) == e.body.k = "str" /\ StartsWith(Lower(e.body.v), Keyword)

\* C16: a webhook request always completes with HTTP 200, whatever the body
\* and whichever stage failed (body parsing, dedup, resolution, read receipt,
\* executor, reply send, apology send); the outcome is only the status in the
\* response body.
C16_WebhookAlways200 ==
    \A s \in Slots :
        inflight[s].pc = "done" =>
            /\ response.op = "webhook"
            /\ response.code = 200
            /\ response.status \in {"ok", "error"}

\* a triggered request whose reply send and then apology send both failed
C16_Witness ==
    \E s \in Slots :
        /\ inflight[s].pc = "done"
        /\ inflight[s].execs = 1
        /\ Len(inflight[s].sends) = 2
        /\ inflight[s].delivered = <<>>
        /\ response.code = 200

\* C17: for an event whose text does not case-insensitively start with "gg"
\* (body empty, missing or null, sender malformed included) the executor is
\* never invoked and no text is sent, neither a reply nor an apology.
C17_NoTriggerNoOutput ==
    \A s \in Slots :
        (inflight[s].pc # "idle" /\ ~Triggered(inflight[s].ev)) =>
            /\ inflight[s].execs = 0
            /\ inflight[s].sends = <<>>

\* C18: a message event whose id is already in the registry is skipped: no
\* destination resolution, no read receipt, no executor call, no send, and
\* the registry stays as it was.
C18_DuplicateSkipped ==
    [][\A s \in Slots :
          (/\ inflight[s].pc = "idle"
           /\ inflight'[s].pc # "idle"
           /\ IsMessageEvent(inflight'[s].ev)
           /\ inflight'[s].ev.payload = "dict"
           /\ MessageId(inflight'[s].ev) \in processed_message_ids)
          => /\ inflight'[s].pc = "done"
             /\ ~inflight'[s].resolved
             /\ inflight'[s].readAttempts = 0
             /\ inflight'[s].execs = 0
             /\ inflight'[s].sends = <<>>
             /\ processed_message_ids' = processed_message_ids]_vars

\* a redelivered command has been skipped
C18_Witness ==
    \E s \in Slots :
        /\ inflight[s].pc = "done"
        /\ waha_client
        /\ Triggered(inflight[s].ev)
        /\ inflight[s].ev.type = "chat"
        /\ inflight[s].ev.sender = "dict"
        /\ inflight[s].ev.id \in processed_message_ids
        /\ ~inflight[s].recorded
        /\ inflight[s].execs = 0


\* C19: the registry resets when the 1001st distinct id is recorded, and that
\* id is recorded into the emptied set: once the 1001st message has been
\* handled the registry holds exactly its id (so that an immediate
\* redelivery is skipped).
C19_ResetKeepsNewId ==
    \A s \in Slots :
        (/\ inflight[s].pc # "idle"
         /\ issued = DedupCap + 1
         /\ inflight[s].message_id = ToString(DedupCap + 1)
         /\ inflight[s].recorded)
        => processed_message_ids = {inflight[s].message_id}

\* C20: between handler steps the registry never holds more than 1000 ids,
\* and ids leave it only all at once, when it is cleared.
C20_RegistryCapped ==
    [][/\ Cardinality(processed_message_ids') <= DedupCap
       /\ \/ processed_message_ids \subseteq processed_message_ids'
          \/ processed_message_ids' = {}]_vars

\* the cap was reached and the next new id has emptied the registry
C20_Witness ==
    \E s \in Slots :
        /\ inflight[s].pc = "done"
        /\ inflight[s].recorded
        /\ issued = DedupCap + 1
        /\ processed_message_ids = {}


\* C21: the seen-check, the record and the clear-on-cap of one event happen
\* in one step, with no suspension between them; so of the concurrent
\* deliveries of one message id at most one passes the duplicate filter, and
\* the executor runs at most once for that id.
C21_AtMostOncePerId ==
    /\ [](\A s, t \in Slots :
            (/\ s # t
             /\ inflight[s].pc # "idle"
             /\ inflight[t].pc # "idle"
             /\ inflight[s].message_id = inflight[t].message_id)
            => /\ ~(inflight[s].recorded /\ inflight[t].recorded)
               /\ inflight[s].execs + inflight[t].execs <= 1)
    /\ [][\A s \in Slots :
            (inflight[s].pc = "idle" /\ inflight'[s].pc # "idle") =>
                /\ inflight'[s].recorded
                       = (inflight'[s].message_id \notin processed_message_ids)
                /\ processed_message_ids'
                       = processed_message_ids \cup {inflight'[s].message_id}]_vars

\* a command is redelivered while its first delivery is still suspended at
\* the sleep, and the redelivery is skipped; the executor then runs once
C21_Witness ==
    \E s, t \in Slots :
        /\ s # t
        /\ inflight[s].message_id = inflight[t].message_id
        /\ Triggered(inflight[s].ev) /\ Triggered(inflight[t].ev)
        /\ inflight[s].recorded /\ inflight[s].execs = 1
        /\ inflight[t].pc = "done" /\ inflight[t].stage = "duplicate"
        /\ inflight[t].sends = <<>>


\* C30: whenever a job's status is completed its payment_status is
\* "completed"; a status query that was suspended in its payment status
\* check while the callback completed the job does not overwrite it.
C30_CompletedMeansPaid ==
    \A j \in DOMAIN jobs :
        jobs[j].status = "completed" => jobs[j].payment_status = "completed"


\* the field carries the group domain
CarriesGroup(x) == x.k = "str" /\ \E i \in 1..Len(x.v) : x.v[i] = GroupSuffix

\* C22: chat-id resolution takes `from` when it carries the group domain
\* (also when `to` carries it too), else `to` when that carries it, else
\* `to`: (555@g.us, 1@c.us) -> 555@g.us, (1@c.us, 555@g.us) -> 555@g.us,
\* (1@c.us, 2@c.us) -> 2@c.us.
C22_ResolutionPriority ==
    \A s \in Slots :
        inflight[s].resolved =>
            LET e == inflight[s].ev
                dest == inflight[s].dest
            IN  /\ CarriesGroup(e.from) => dest = e.from
                /\ (~CarriesGroup(e.from) /\ e.to.k = "str") => dest = e.to
                /\ (~CarriesGroup(e.from) /\ e.to.k # "str") => dest = NoneV
                /\ (e.from = Group555 /\ e.to = User1) => dest = Group555
                /\ (e.from = User1 /\ e.to = Group555) => dest = Group555
                /\ (e.from = User1 /\ e.to = User2) => dest = User2

\* both fields carry the group domain and `from` has been taken
C22_Witness ==
    \E s \in Slots :
        /\ inflight[s].resolved
        /\ inflight[s].ev.from = Group555
        /\ inflight[s].ev.to = Group777
        /\ inflight[s].dest = Group555


\* C23: a task output longer than 200 characters is cut at or before 200
\* characters, back to the last space before the limit when there is one,
\* and ends with "...", the shaped body staying within 200 characters; an
\* output shorter than 200 characters without leading emoji or whitespace is
\* passed on unchanged inside the wrapper.
C23_TruncatedWithinBudget ==
    \A s \in Slots :
        LET p == inflight[s]
        IN  (p.sends # <<>> /\ p.sends[1].kind = "reply") =>
                /\ Len(p.output) > MaxResponseLength =>
                       /\ Len(p.body) <= MaxResponseLength
                       /\ EndsWith(p.body, Ellipsis)
                /\ (/\ Len(p.output) < MaxResponseLength
                    /\ Head(p.output) \notin EmojiChars \cup Whitespace) =>
                       /\ p.body = p.output
                       /\ p.sends[1].message = <<Robot, " ", "_">> \o p.output \o <<"_">>


\* the send attempts of a request that are apologies
Apologies(p) == {i \in 1..Len(p.sends) : p.sends[i].kind = "apology"}

\* C24: when the executor or the reply send raises for a triggered message,
\* exactly one apology send is attempted, and it is addressed to the
\* destination the reply used or would have used (the resolved chat id after
\* normalization).
C24_ApologyToResolvedDestination ==
    \A s \in Slots :
        LET p == inflight[s]
        IN  (p.execs = 1 /\ p.stage = "raised") =>
                /\ Cardinality(Apologies(p)) = 1
                /\ \A i \in Apologies(p) : p.sends[i].to = p.chat_id


\* the known groups whose name occurs, whatever the case, in the event
NamedGroups(e) ==
    {g \in 1..Len(KnownGroups) :
        \E i \in 1..Len(Serialized(e)) :
            LowerToken(Serialized(e)[i]) = LowerToken(KnownGroups[g].name)}

\* the places of the event where a group id stands
GroupIdPlaces(e) ==
    {i \in 1..(Len(Serialized(e)) - 1) :
        Serialized(e)[i] \in DigitTokens /\ Serialized(e)[i + 1] = GroupSuffix}

\* C25: the normalization is attempted exactly when the resolved id is
\* non-empty and ends with neither suffix; it yields the id of the first
\* known group named in the event, else the first group id found in the
\* event, else the id as it was; it never raises, and an id that ends with
\* a suffix is left alone.
C25_Normalization ==
    \A s \in Slots :
        LET p == inflight[s]
            e == p.ev
            last == p.dest.v[Len(p.dest.v)]
        IN  p.readAttempts = 1 =>
                /\ p.mapped = (/\ p.dest.k = "str" /\ p.dest.v # <<>>
                               /\ last \notin {UserSuffix, GroupSuffix})
                /\ ~p.mapped => p.chat_id = p.dest
                /\ (p.mapped /\ NamedGroups(e) # {}) =>
                       \E g \in NamedGroups(e) :
                           /\ \A h \in NamedGroups(e) : g <= h
                           /\ p.chat_id = Str(KnownGroups[g].id)
                /\ (p.mapped /\ NamedGroups(e) = {} /\ GroupIdPlaces(e) # {}) =>
                       \E i \in GroupIdPlaces(e) :
                           /\ \A k \in GroupIdPlaces(e) : i <= k
                           /\ p.chat_id = Str(<<Serialized(e)[i], GroupSuffix>>)
                /\ (p.mapped /\ NamedGroups(e) = {} /\ GroupIdPlaces(e) = {}) =>
                       p.chat_id = p.dest
                /\ p.execs = 0 => p.stage # "raised"

\* an internal id, with a group id and, in capitals, a known group's name in
\* the event: the name has won
C25_Witness ==
    \E s \in Slots :
        /\ inflight[s].readAttempts = 1
        /\ inflight[s].mapped
        /\ inflight[s].dest = InternalId
        /\ GroupIdPlaces(inflight[s].ev) # {}
        /\ inflight[s].ev.extra = <<"120", GroupSuffix, "UBER">>
        /\ inflight[s].chat_id = Str(KnownGroups[4].id)


\* the text after the first two characters, trimmed
Remainder(e) == Strip(From(e.body.v, 2))

\* C26: a text message is acted on only if its text starts, whatever the
\* case, with "gg"; the instruction given to the executor is the text after
\* the first two characters, trimmed; when that remainder is empty the
\* executor is not invoked and nothing is sent.
C26_TriggerPolicy ==
    \A s \in Slots :
        LET p == inflight[s]
        IN  /\ p.execs > 0 => (Triggered(p.ev) /\ p.clean = Remainder(p.ev))
            /\ (p.pc # "idle" /\ Triggered(p.ev) /\ Remainder(p.ev) = <<>>) =>
                   (p.execs = 0 /\ p.sends = <<>>)

\* the stage at which the filters of lines 463-488 let go of the event
FilterStage(e) ==
    IF e.type \notin {"text", "chat", Missing} THEN "nontext"
    ELSE IF e.body.k # "str" \/ Strip(e.body.v) = <<>> THEN "empty"
    ELSE IF ~Triggered(e) THEN "nokeyword"
    ELSE IF Remainder(e) = <<>> THEN "nocommand"
    ELSE "triggered"

\* C27: a failed read receipt (the call itself being rejected included) is
\* absorbed: the event goes on through the type filter, the content filter,
\* the execution and the reply.
C27_ReadReceiptBestEffort ==
    \A s \in Slots :
        LET p == inflight[s]
        IN  p.readAttempts = 1 =>
                /\ p.execs = 0 => p.stage = FilterStage(p.ev)
                /\ p.execs = 0 => p.sends = <<>>
                /\ FilterStage(p.ev) = "triggered" => p.pc # "done" \/ p.execs = 1
                /\ p.execs = 1 =>
                       /\ FilterStage(p.ev) = "triggered"
                       /\ p.stage \in {"triggered", "replied", "raised"}

\* the receipt was rejected and the reply has been sent all the same
C27_Witness ==
    \E s \in Slots :
        /\ inflight[s].readAttempts = 1
        /\ inflight[s].stage = "replied"
        /\ inflight[s].delivered = <<"reply">>

\* C28: the stages run in the order event-type filter, duplicate filter,
\* message-type filter, content filter, and only then resolution, execution
\* and response: an event stopped by the message-type or content filter has
\* caused no resolution, no remapping and no send.
C28_FiltersBeforeResolution ==
    \A s \in Slots :
        LET p == inflight[s]
        IN  p.stage \in {"nontext", "empty", "nokeyword", "nocommand"} =>
                /\ ~p.resolved
                /\ ~p.mapped
                /\ p.sends = <<>>


\* C29: a webhook event whose type is neither "message" nor "message.any" is
\* a no-op: the dedup registry, the job registry and the payment-monitor
\* registry stay as they were, no transport call and no execution happen,
\* and the response reports status ok.
C29_NonMessageNoOp ==
    [][\A s \in Slots :
          (/\ inflight[s].pc = "idle"
           /\ inflight'[s].pc # "idle"
           /\ inflight'[s].ev.json = "ok"
           /\ inflight'[s].ev.event \notin {"message", "message.any"})
          => /\ processed_message_ids' = processed_message_ids
             /\ jobs' = jobs
             /\ payment_instances' = payment_instances
             /\ inflight'[s].pc = "done"
             /\ inflight'[s].readAttempts = 0
             /\ inflight'[s].execs = 0
             /\ inflight'[s].sends = <<>>
             /\ response'.code = 200
             /\ response'.status = "ok"]_vars

\* a session event has been answered while a job and its monitor entry and
\* a recorded message id were there
C29_Witness ==
    \E s \in Slots :
        /\ inflight[s].pc = "done"
        /\ inflight[s].ev.event = "session.status"
        /\ response.status = "ok"
        /\ DOMAIN jobs # {}
        /\ payment_instances # {}
        /\ processed_message_ids # {}


\* C31: at every suspension point the keys of the payment-monitor registry
\* are keys of the job registry, and a job has a monitor entry exactly when
\* its status is awaiting_payment or running.
C31_RegistryConsistency ==
    /\ payment_instances \subseteq DOMAIN jobs
    /\ \A j \in DOMAIN jobs :
           (j \in payment_instances)
               <=> (jobs[j].status \in {"awaiting_payment", "running"})

\* one job is running with its callback suspended and its entry in place,
\* another job has ended and lost its entry
C31_Witness ==
    \E j, k \in DOMAIN jobs :
        /\ jobs[j].status = "running"
        /\ finalizing[j] > 0
        /\ j \in payment_instances
        /\ jobs[k].status \in Terminal
        /\ k \notin payment_instances


\* C32: when the executor and the payment calls return or raise, every job
\* whose completion callback was invoked gets to completed or failed and
\* loses its monitor entry, for good: no job stays running forever.
C32_CallbackTerminates ==
    \A j \in JobIds :
        (delivered[j] > 0)
            ~> [](/\ j \in DOMAIN jobs
                  /\ jobs[j].status \in Terminal
                  /\ j \notin payment_instances)

\* a job whose callback was delivered twice, both handlers have ended
C32_Witness ==
    \E j \in DOMAIN jobs :
        /\ delivered[j] = 2
        /\ finalizing[j] = 0
        /\ cbOk[j] + cbFail[j] = 2
        /\ jobs[j].status \in Terminal
        /\ j \notin payment_instances


\* the kinds of the send attempts of a request, in the order they were made
Kinds(p) == [i \in 1..Len(p.sends) |-> p.sends[i].kind]

\* C33: for one inbound event there are at most two send attempts, the reply
\* and then at most one apology, at most one of them returns normally, and an
\* apology is attempted only after an exception and never after a reply that
\* was sent.
C33_SendsPerEvent ==
    \A s \in Slots :
        LET p == inflight[s]
        IN  /\ Kinds(p) \in {<<>>, <<"reply">>, <<"apology">>,
                             <<"reply", "apology">>}
            /\ Len(p.delivered) <= 1
            /\ p.execs <= 1
            /\ (\E i \in 1..Len(p.sends) : p.sends[i].kind = "apology")
                   => /\ p.stage = "raised"
                      /\ p.delivered \in {<<>>, <<"apology">>}
            /\ (\E i \in 1..Len(p.delivered) : p.delivered[i] = "reply")
                   => /\ p.stage = "replied"
                      /\ Kinds(p) = <<"reply">>

\* the reply was attempted and raised, the apology went out
C33_Witness ==
    \E s \in Slots :
        /\ inflight[s].pc = "done"
        /\ Kinds(inflight[s]) = <<"reply", "apology">>
        /\ inflight[s].delivered = <<"apology">>


\* the request was stopped by a filter, or raised in or after the execution
StoppedOrFailed(p) ==
    \/ p.stage \in {"nontext", "empty", "nokeyword", "nocommand"}
    \/ p.stage = "raised" /\ p.execs > 0

\* C34: a message id is recorded before the filters and the execution, so a
\* message that was filtered out, or whose execution or reply raised, stays
\* recorded (no reset of the registry in between), and a redelivery of its id
\* runs no resolution, no execution and no send.
C34_NoRetryThroughRedelivery ==
    /\ [](\A s \in Slots :
            LET p == inflight[s]
            IN  /\ (p.resolved \/ p.execs > 0 \/ StoppedOrFailed(p)
                        \/ \E i \in 1..Len(p.sends) : p.sends[i].kind = "reply")
                       => /\ p.recorded
                          /\ p.message_id \in processed_message_ids
                /\ p.stage = "duplicate"
                       => /\ p.pc = "done"
                          /\ p.execs = 0
                          /\ p.sends = <<>>)
    /\ [][\A s, t \in Slots :
            (/\ s # t
             /\ StoppedOrFailed(inflight[s])
             /\ inflight[t].pc = "idle"
             /\ inflight'[t].pc # "idle"
             /\ inflight'[t].message_id = inflight[s].message_id)
            => /\ inflight'[t].stage = "duplicate"
               /\ ~inflight'[t].recorded
               /\ processed_message_ids' = processed_message_ids]_vars

\* the reply of a command raised and the apology went out; the command was
\* delivered again under its id and skipped
C34_Witness ==
    \E s, t \in Slots :
        /\ s # t
        /\ inflight[s].pc = "done"
        /\ inflight[s].stage = "raised"
        /\ inflight[s].execs = 1
        /\ Len(inflight[s].sends) = 2
        /\ inflight[s].recorded
        /\ inflight[t].stage = "duplicate"
        /\ inflight[t].message_id = inflight[s].message_id
        /\ Triggered(inflight[t].ev)


\* the step belongs to a completion callback or a status query of job j
CallbackOrQuery(j) ==
    \/ delivered'[j] # delivered[j]
    \/ finalizing'[j] # finalizing[j]
    \/ checking'[j] # checking[j]
    \/ queries' # queries /\ response'.job = j
    \/ response'.op = "status" /\ response'.job = j

\* C35: a completion callback or a status query of one job changes no field
\* of another job and no other job's payment-monitor entry, however the
\* callbacks and queries of several jobs interleave; and a job, once in the
\* job registry, is never removed from it.
C35_JobIsolation ==
    [][/\ DOMAIN jobs \subseteq DOMAIN jobs'
       /\ \A j \in JobIds :
              CallbackOrQuery(j) =>
                  \A k \in DOMAIN jobs \ {j} :
                      /\ jobs'[k] = jobs[k]
                      /\ (k \in payment_instances') = (k \in payment_instances)
                      /\ monitoring'[k] = monitoring[k]]_vars

\* one job was completed by its callback and has lost its entry while
\* another job, started before, still waits for its payment under its own
\* monitor
C35_Witness ==
    \E j, k \in DOMAIN jobs :
        /\ j # k
        /\ jobs[j].status = "completed"
        /\ cbOk[j] > 0
        /\ j \notin payment_instances
        /\ jobs[k].status = "awaiting_payment"
        /\ delivered[k] = 0
        /\ k \in payment_instances
        /\ monitoring[k]

====
